---- MODULE Spec2Model ----
(***************************************************************************)
(* Model of the wordtris CSV generators:                                   *)
(*   create_word_definitions.py           (script 1)                       *)
(*   create_enhanced_word_definitions.py  (script 2, "enhanced")           *)
(*                                                                         *)
(* A string is a sequence of ASCII code points, so that lower(), strip(),  *)
(* isalpha(), len() and the ordering used by list.sort() are computed the  *)
(* way Python computes them on ASCII text.  A CSV file is the sequence of  *)
(* the rows handed to csv.writer: the header row, then the data rows.      *)
(* WordNet is taken to be installed; the words and stopwords corpora may   *)
(* be missing.                                                             *)
(***************************************************************************)
EXTENDS Integers, Sequences, FiniteSets, TLC

\* ---------------------------------------------------------------- bounds
\* largest number of entries of words.words() when a function is called directly
MaxCorpus == 4
\* largest number of entries of words.words() when a script's main() is run
MaxMainCorpus == 2
\* largest max_words / max_words_per_length passed in a direct call
MaxTarget == 3

\* ------------------------------------------------- program constants
MainMaxWords == 2000
MainMaxWordsPerLength == 500
MainCombinedMaxWords == 300
EnhancedMainMaxWords == 300
DefaultMinLength == 3
DefaultMaxLength == 8

\* ------------------------------------------------- sample lexical data
\* Python's None (no code point is negative, so it is no string)
None == <<-1>>

\* entries words.words() may hold:
\*   "Cat" "cat" "dog" "the" "ume" "able" "o'er" "it" "alligator"
WordsUniverse ==
    { <<67,97,116>>, <<99,97,116>>, <<100,111,103>>, <<116,104,101>>,
      <<117,109,101>>, <<97,98,108,101>>, <<111,39,101,114>>, <<105,116>>,
      <<97,108,108,105,103,97,116,111,114>> }

\* stopwords.words('english') when the stopwords corpus is installed:
\*   "the" "can" "it" "it's" "who " (an entry with a trailing blank)
StopList ==
    { <<116,104,101>>, <<99,97,110>>, <<105,116>>, <<105,116,39,115>>,
      <<119,104,111,32>> }

\* words WordNet has at least one synset for:
\*   "cat" "dog" "can" "able" "it" "who" "alligator"
WordNetWords ==
    { <<99,97,116>>, <<100,111,103>>, <<99,97,110>>, <<97,98,108,101>>,
      <<105,116>>, <<119,104,111>>, <<97,108,108,105,103,97,116,111,114>> }

\* wn.synsets(word): the glosses of the word's synsets, most common first
\* (the gloss of a sample word is "d:" followed by the word)
synsets(word) ==
    IF word \in WordNetWords THEN << <<100,58>> \o word >> ELSE << >>

\* ------------------------------------------------- str methods (ASCII)
lower(word) ==
    [i \in 1..Len(word) |->
        IF word[i] >= 65 /\ word[i] <= 90 THEN word[i] + 32 ELSE word[i]]

IsSpace(c) == c \in {9, 10, 11, 12, 13, 28, 29, 30, 31, 32}

RECURSIVE lstrip(_)
lstrip(word) ==
    IF word # << >> /\ IsSpace(Head(word)) THEN lstrip(Tail(word)) ELSE word

RECURSIVE rstrip(_)
rstrip(word) ==
    IF word # << >> /\ IsSpace(word[Len(word)])
    THEN rstrip(SubSeq(word, 1, Len(word) - 1))
    ELSE word

strip(word) == rstrip(lstrip(word))

isalpha(word) ==
    /\ Len(word) > 0
    /\ \A i \in 1..Len(word) :
          \/ word[i] >= 65 /\ word[i] <= 90
          \/ word[i] >= 97 /\ word[i] <= 122

\* Python's truth value of a str-or-None
Truthy(v) == v # None /\ v # << >>

\* str < str: lexicographic by code point, a proper prefix first
RECURSIVE StrLess(_, _)
StrLess(a, b) ==
    IF b = << >> THEN FALSE
    ELSE IF a = << >> THEN TRUE
    ELSE IF Head(a) # Head(b) THEN Head(a) < Head(b)
    ELSE StrLess(Tail(a), Tail(b))

\* ------------------------------------------------- shared helpers of the scripts
get_word_definition(word) ==
    LET syns == synsets(word)
    IN  IF syns # << >> THEN syns[1] ELSE None

\* faulty variant: the isalpha / length test left out
clean_word_unchecked(word) == strip(lower(word))

clean_word(word) ==
    LET w == strip(lower(word))
    IN  IF isalpha(w) /\ Len(w) >= 3 THEN w ELSE None

\* faulty variant: the comparison of the sort the wrong way round
RECURSIVE InsertRowDescending(_, _)
InsertRowDescending(row, sorted) ==
    IF sorted = << >> THEN << row >>
    ELSE IF StrLess(Head(sorted)[1], row[1]) THEN << row >> \o sorted
    ELSE << Head(sorted) >> \o InsertRowDescending(row, Tail(sorted))

\* list.sort(key=lambda x: x[0]): stable insertion of each row after the
\* rows whose word is not greater
RECURSIVE InsertRow(_, _)
InsertRow(row, sorted) ==
    IF sorted = << >> THEN << row >>
    ELSE IF StrLess(row[1], Head(sorted)[1]) THEN << row >> \o sorted
    ELSE << Head(sorted) >> \o InsertRow(row, Tail(sorted))

\* faulty variant: the sort left out
NoSort(rows) == rows

RECURSIVE SortByWord(_)
SortByWord(rows) ==
    IF rows = << >> THEN << >>
    ELSE InsertRow(rows[Len(rows)], SortByWord(SubSeq(rows, 1, Len(rows) - 1)))

\* the orders random.shuffle can leave the elements of a collection in
RECURSIVE Orderings(_)
Orderings(S) ==
    IF S = {} THEN { << >> }
    ELSE UNION { { << x >> \o t : t \in Orderings(S \ {x}) } : x \in S }

\* list[:n]
Take(list, n) == SubSeq(list, 1, IF n < Len(list) THEN n ELSE Len(list))

\* writer.writerow(['word', 'definition'])
Header == << <<119,111,114,100>>, <<100,101,102,105,110,105,116,105,111,110>> >>


\* ------------------------------------------------- state
VARIABLES
    mode,                 \* "call": one function is called; "main" / "enhanced_main": a script runs
    corpus,               \* the entries of the words corpus (words.words())
    availWords,           \* the words corpus is installed (nltk.data.find succeeds)
    availStop,            \* the stopwords corpus is installed
    downloads,            \* corpora download_required_data reported missing and asked nltk to download
    mainpc,               \* position of main()
    length,               \* loop variable of create_all_length_csvs / of the enhanced main()
    results,              \* results / length_results: length -> returned count
    fn,                   \* the generation function running
    target_length,        \* its target_length (0 when it has none)
    max_words,            \* its max_words / max_words_per_length
    pc,                   \* its position
    shuffled,             \* filtered_words right after random.shuffle
    word_list,            \* filtered_words / word_list the selection loop iterates over
    idx,                  \* 1-based position of the selection loop in word_list
    english_stopwords,    \* the enhanced function's english_stopwords set
    word_definitions,     \* word_definitions / length_word_definitions
    all_word_definitions, \* create_combined_length_csv's accumulator
    files,                \* file name -> rows written (<< >>: the file does not exist)
    ret,                  \* value returned by the last generation function (-1: none yet)
    run,                  \* 1 in the first run of a function, 2 when it is run again
    prev_file             \* the rows the first run wrote, kept to compare the second run with

vars == << mode, corpus, availWords, availStop, downloads, mainpc, length, results,
           fn, target_length, max_words, pc, shuffled, word_list, idx,
           english_stopwords, word_definitions, all_word_definitions, files, ret,
           run, prev_file >>

env == << mode, corpus, run, prev_file >>
installed == << availWords, availStop, downloads >>
mainVars == << mainpc, length, results >>
args == << fn, target_length, max_words >>

Lengths == 3..8
\* target_length values of a direct call
TargetLengths == {2, 3, 4}

GeneralFile == << "word_definitions.csv", 0 >>
LengthFile(n) == << "_letter_words_definitions.csv", n >>
CombinedFile == << "all_words_3_to_8_letters.csv", 0 >>
EnhancedFile(n) == << "_letter_words_enhanced.csv", n >>

FileNames ==
    {GeneralFile, CombinedFile}
        \cup { LengthFile(n) : n \in 2..8 } \cup { EnhancedFile(n) : n \in 2..8 }

SubsetsUpTo(S, n) == { c \in SUBSET S : Cardinality(c) <= n }

\* ------------------------------------------------- create_word_definitions.py
\* lines 72-73
GeneralCandidates(english_words) ==
    { word \in english_words :
        /\ DefaultMinLength <= Len(word) /\ Len(word) <= DefaultMaxLength
        /\ isalpha(word) }

\* lines 124-125 / 219-220 (before word.lower())
LengthCandidates(english_words, tl) ==
    { word \in english_words : Len(word) = tl /\ isalpha(word) }

\* faulty variant: the slice keeps max_words_per_length candidates only
SliceExact(list, mw) == Take(list, mw)

\* filtered_words[:max_words_per_length * 2]
SliceCandidates(list, mw) == Take(list, mw * 2)

\* faulty variant: the break test off by one
QuotaExceeded(wd, mw) == Len(wd) > mw

\* the break test at the top of every selection loop
QuotaReached(wd, mw) == Len(wd) >= mw

\* body of the loop of create_word_definition_csv (lines 85-89)
GeneralSelect(wd, word) ==
    LET cleaned_word == clean_word(word)
    IN  IF Truthy(cleaned_word)
        THEN LET definition == get_word_definition(cleaned_word)
             IN  IF Truthy(definition)
                 THEN Append(wd, << cleaned_word, definition >>)
                 ELSE wd
        ELSE wd

\* body of the loops of create_words_by_length_csv (144-148) and
\* create_combined_length_csv (236-240)
LengthSelect(wd, word, tl) ==
    LET cleaned_word == clean_word(word)
    IN  IF Truthy(cleaned_word) /\ Len(cleaned_word) = tl
        THEN LET definition == get_word_definition(cleaned_word)
             IN  IF Truthy(definition)
                 THEN Append(wd, << cleaned_word, definition >>)
                 ELSE wd
        ELSE wd

\* ------------------------------------------------- create_enhanced_word_definitions.py
\* stopwords.words('english') inside try/except: the empty set when it raises
StopwordsOrEmpty == IF availStop THEN StopList ELSE {}

get_comprehensive_word_list(tl, include_stopwords) ==
    LET from_words ==
            IF availWords
            THEN { lower(word) : word \in { w \in corpus : isalpha(w) } }
            ELSE {}
        stopwords_filtered ==
            IF include_stopwords
            THEN IF tl # 0
                 THEN { word \in StopwordsOrEmpty : Len(word) = tl }
                 ELSE StopwordsOrEmpty
            ELSE {}
        all_words == from_words \cup stopwords_filtered
    IN  IF tl # 0 THEN { word \in all_words : Len(word) = tl } ELSE all_words

\* faulty variant: stopwords get no special treatment
EnhancedSelectDefinedOnly(wd, word, tl, stops) == LengthSelect(wd, word, tl)

\* faulty variant: every cleaned word is kept, defined or not
EnhancedSelectKeepAll(wd, word, tl, stops) ==
    LET cleaned_word == clean_word(word)
    IN  IF Truthy(cleaned_word) /\ Len(cleaned_word) = tl
        THEN LET definition == get_word_definition(cleaned_word)
             IN  Append(wd, << cleaned_word,
                               IF Truthy(definition) THEN definition ELSE << >> >>)
        ELSE wd

\* faulty variant: the length test on the cleaned word left out
EnhancedSelectAnyLength(wd, word, tl, stops) ==
    LET cleaned_word == clean_word(word)
    IN  IF Truthy(cleaned_word)
        THEN LET definition == get_word_definition(cleaned_word)
             IN  IF cleaned_word \in stops
                 THEN Append(wd, << cleaned_word,
                                    IF Truthy(definition) THEN definition ELSE << >> >>)
                 ELSE IF Truthy(definition)
                      THEN Append(wd, << cleaned_word, definition >>)
                      ELSE wd
        ELSE wd

\* body of the loop of create_enhanced_words_by_length_csv (128-139)
EnhancedSelect(wd, word, tl, stops) ==
    LET cleaned_word == clean_word(word)
    IN  IF Truthy(cleaned_word) /\ Len(cleaned_word) = tl
        THEN LET definition == get_word_definition(cleaned_word)
             IN  IF cleaned_word \in stops
                 THEN Append(wd, << cleaned_word,
                                    IF Truthy(definition) THEN definition ELSE << >> >>)
                 ELSE IF Truthy(definition)
                      THEN Append(wd, << cleaned_word, definition >>)
                      ELSE wd
        ELSE wd

\* ------------------------------------------------- initial states
NoFiles == [f \in FileNames |-> << >>]

Idle ==
    /\ shuffled = << >>
    /\ word_list = << >>
    /\ idx = 1
    /\ english_stopwords = {}
    /\ word_definitions = << >>
    /\ all_word_definitions = << >>
    /\ files = NoFiles
    /\ ret = -1
    /\ downloads = {}
    /\ length = 0
    /\ results = << >>
    /\ run = 1
    /\ prev_file = << >>

\* a test or caller invokes one generation function
InitCall ==
    /\ mode = "call"
    /\ mainpc = "none"
    /\ pc = "entry"
    /\ fn \in {"general", "bylength", "combined", "enhanced"}
    /\ max_words \in 0..MaxTarget
    /\ target_length \in (IF fn \in {"bylength", "enhanced"} THEN TargetLengths ELSE {0})
    /\ availWords \in BOOLEAN
    /\ availStop \in (IF fn = "enhanced" THEN BOOLEAN ELSE {TRUE})
    /\ corpus \in (IF availWords THEN SubsetsUpTo(WordsUniverse, MaxCorpus) ELSE {{}})
    /\ Idle

\* a script is run: main() of script 1 ("main") or of the enhanced script
InitMain ==
    /\ mode \in {"main", "enhanced_main"}
    /\ mainpc = "download"
    /\ pc = "main"
    /\ fn = "none"
    /\ max_words = 0
    /\ target_length = 0
    /\ availWords \in BOOLEAN
    /\ availStop \in (IF mode = "enhanced_main" THEN BOOLEAN ELSE {TRUE})
    /\ corpus \in SubsetsUpTo(WordsUniverse, MaxMainCorpus)
    /\ Idle

Init == InitCall \/ InitMain

\* f(tl, mw) is called
Call(f, tl, mw) ==
    /\ fn' = f
    /\ target_length' = tl
    /\ max_words' = mw
    /\ pc' = "entry"

\* ------------------------------------------------- create_word_definition_csv
LoadGeneral ==
    /\ pc = "entry" /\ fn = "general"
    /\ IF ~availWords
       THEN \* words.words() raises LookupError, which nothing catches
            /\ pc' = "fatal"
            /\ UNCHANGED << shuffled, word_list, idx, word_definitions >>
       ELSE \E o \in Orderings(GeneralCandidates(corpus)) :
                /\ shuffled' = o
                /\ word_list' = o
                /\ idx' = 1
                /\ word_definitions' = << >>
                /\ pc' = "loop"
    /\ UNCHANGED << env, installed, mainVars, args, english_stopwords,
                    all_word_definitions, files, ret >>

LoopGeneral ==
    /\ pc = "loop" /\ fn = "general"
    /\ IF idx > Len(word_list) \/ QuotaReached(word_definitions, max_words)
       THEN /\ pc' = "write"
            /\ UNCHANGED << idx, word_definitions >>
       ELSE /\ word_definitions' = GeneralSelect(word_definitions, word_list[idx])
            /\ idx' = idx + 1
            /\ pc' = "loop"
    /\ UNCHANGED << env, installed, mainVars, args, shuffled, word_list,
                    english_stopwords, all_word_definitions, files, ret >>

WriteGeneral ==
    /\ pc = "write" /\ fn = "general"
    /\ files' = [files EXCEPT ![GeneralFile] = << Header >> \o word_definitions]
    /\ ret' = Len(word_definitions)
    /\ pc' = "returned"
    /\ UNCHANGED << env, installed, mainVars, args, shuffled, word_list, idx,
                    english_stopwords, word_definitions, all_word_definitions >>

\* ------------------------------------------------- create_words_by_length_csv
LoadByLength ==
    /\ pc = "entry" /\ fn = "bylength"
    /\ IF ~availWords
       THEN \* except Exception: print, return 0
            /\ ret' = 0
            /\ pc' = "returned"
            /\ UNCHANGED << shuffled, word_list, idx, word_definitions >>
       ELSE \E o \in Orderings(LengthCandidates(corpus, target_length)) :
                /\ shuffled' = [i \in 1..Len(o) |-> lower(o[i])]
                /\ word_list' = SliceCandidates(shuffled', max_words)
                /\ idx' = 1
                /\ word_definitions' = << >>
                /\ pc' = "loop"
                /\ UNCHANGED ret
    /\ UNCHANGED << env, installed, mainVars, args, english_stopwords,
                    all_word_definitions, files >>

LoopByLength ==
    /\ pc = "loop" /\ fn = "bylength"
    /\ IF idx > Len(word_list) \/ QuotaReached(word_definitions, max_words)
       THEN /\ pc' = "write"
            /\ UNCHANGED << idx, word_definitions >>
       ELSE /\ word_definitions' =
                   LengthSelect(word_definitions, word_list[idx], target_length)
            /\ idx' = idx + 1
            /\ pc' = "loop"
    /\ UNCHANGED << env, installed, mainVars, args, shuffled, word_list,
                    english_stopwords, all_word_definitions, files, ret >>

SortWriteByLength ==
    /\ pc = "write" /\ fn = "bylength"
    /\ word_definitions' = SortByWord(word_definitions)
    /\ files' = [files EXCEPT ![LengthFile(target_length)] =
                                  << Header >> \o word_definitions']
    /\ ret' = Len(word_definitions')
    /\ pc' = "returned"
    /\ UNCHANGED << env, installed, mainVars, args, shuffled, word_list, idx,
                    english_stopwords, all_word_definitions >>

\* ------------------------------------------------- create_combined_length_csv
EnterCombined ==
    /\ pc = "entry" /\ fn = "combined"
    /\ all_word_definitions' = << >>
    /\ target_length' = 3
    /\ pc' = "for"
    /\ UNCHANGED << env, installed, mainVars, fn, max_words, shuffled, word_list, idx,
                    english_stopwords, word_definitions, files, ret >>

LoadCombined ==
    /\ pc = "for" /\ fn = "combined"
    /\ IF ~availWords
       THEN \* except Exception: print, continue
            /\ target_length' = target_length + 1
            /\ pc' = IF target_length + 1 > 8 THEN "write" ELSE "for"
            /\ UNCHANGED << shuffled, word_list, idx, word_definitions >>
       ELSE \E o \in Orderings(LengthCandidates(corpus, target_length)) :
                /\ shuffled' = [i \in 1..Len(o) |-> lower(o[i])]
                /\ word_list' = SliceCandidates(shuffled', max_words)
                /\ idx' = 1
                /\ word_definitions' = << >>
                /\ pc' = "loop"
                /\ UNCHANGED target_length
    /\ UNCHANGED << env, installed, mainVars, fn, max_words, english_stopwords,
                    all_word_definitions, files, ret >>

LoopCombined ==
    /\ pc = "loop" /\ fn = "combined"
    /\ IF idx > Len(word_list) \/ QuotaReached(word_definitions, max_words)
       THEN /\ pc' = "sort"
            /\ UNCHANGED << idx, word_definitions >>
       ELSE /\ word_definitions' =
                   LengthSelect(word_definitions, word_list[idx], target_length)
            /\ idx' = idx + 1
            /\ pc' = "loop"
    /\ UNCHANGED << env, installed, mainVars, args, shuffled, word_list,
                    english_stopwords, all_word_definitions, files, ret >>

ExtendCombined ==
    /\ pc = "sort" /\ fn = "combined"
    /\ word_definitions' = SortByWord(word_definitions)
    /\ all_word_definitions' = all_word_definitions \o word_definitions'
    /\ target_length' = target_length + 1
    /\ pc' = IF target_length + 1 > 8 THEN "write" ELSE "for"
    /\ UNCHANGED << env, installed, mainVars, fn, max_words, shuffled, word_list, idx,
                    english_stopwords, files, ret >>

WriteCombined ==
    /\ pc = "write" /\ fn = "combined"
    /\ files' = [files EXCEPT ![CombinedFile] = << Header >> \o all_word_definitions]
    /\ ret' = Len(all_word_definitions)
    /\ pc' = "returned"
    /\ UNCHANGED << env, installed, mainVars, args, shuffled, word_list, idx,
                    english_stopwords, word_definitions, all_word_definitions >>

\* ------------------------------------------------- create_enhanced_words_by_length_csv
LoadEnhanced ==
    /\ pc = "entry" /\ fn = "enhanced"
    /\ \E o \in Orderings(get_comprehensive_word_list(target_length, TRUE)) :
           /\ shuffled' = o
           /\ word_list' = o
    /\ idx' = 1
    /\ word_definitions' = << >>
    /\ english_stopwords' = StopwordsOrEmpty
    /\ pc' = "loop"
    /\ UNCHANGED << env, installed, mainVars, args, all_word_definitions, files, ret >>

LoopEnhanced ==
    /\ pc = "loop" /\ fn = "enhanced"
    /\ IF idx > Len(word_list) \/ QuotaReached(word_definitions, max_words)
       THEN /\ pc' = "write"
            /\ UNCHANGED << idx, word_definitions >>
       ELSE /\ word_definitions' =
                   EnhancedSelect(word_definitions, word_list[idx], target_length,
                                  english_stopwords)
            /\ idx' = idx + 1
            /\ pc' = "loop"
    /\ UNCHANGED << env, installed, mainVars, args, shuffled, word_list,
                    english_stopwords, all_word_definitions, files, ret >>

SortWriteEnhanced ==
    /\ pc = "write" /\ fn = "enhanced"
    /\ word_definitions' = SortByWord(word_definitions)
    /\ files' = [files EXCEPT ![EnhancedFile(target_length)] =
                                  << Header >> \o word_definitions']
    /\ ret' = Len(word_definitions')
    /\ pc' = "returned"
    /\ UNCHANGED << env, installed, mainVars, args, shuffled, word_list, idx,
                    english_stopwords, all_word_definitions >>

\* ------------------------------------------------- script 1: main()
\* download_required_data(): a missing corpus is reported ("Downloading ...")
\* and nltk.download is called, which may or may not install it
DownloadRequiredData ==
    /\ mode = "main" /\ mainpc = "download"
    /\ IF availWords
       THEN UNCHANGED << availWords, downloads >>
       ELSE /\ downloads' = downloads \cup {"words"}
            /\ availWords' \in BOOLEAN
    /\ mainpc' = "downloaded"
    /\ UNCHANGED << env, availStop, length, results, args, pc, shuffled, word_list, idx,
                    english_stopwords, word_definitions, all_word_definitions,
                    files, ret >>

\* count1 = create_word_definition_csv("word_definitions.csv", max_words=2000)
MainGeneral ==
    /\ mode = "main" /\ mainpc = "downloaded"
    /\ Call("general", 0, MainMaxWords)
    /\ mainpc' = "general"
    /\ UNCHANGED << env, installed, length, results, shuffled, word_list, idx,
                    english_stopwords, word_definitions, all_word_definitions,
                    files, ret >>

\* create_all_length_csvs(3, 8, 500): first iteration of its loop
AllLengthsFirst ==
    /\ mode = "main" /\ mainpc = "general" /\ pc = "returned"
    /\ results' = << >>
    /\ length' = DefaultMinLength
    /\ Call("bylength", DefaultMinLength, MainMaxWordsPerLength)
    /\ mainpc' = "all_lengths"
    /\ UNCHANGED << env, installed, shuffled, word_list, idx, english_stopwords,
                    word_definitions, all_word_definitions, files, ret >>

\* results[length] = count, then the next iteration
AllLengthsNext ==
    /\ mode = "main" /\ mainpc = "all_lengths" /\ pc = "returned"
    /\ length < DefaultMaxLength
    /\ results' = Append(results, << length, ret >>)
    /\ length' = length + 1
    /\ Call("bylength", length + 1, MainMaxWordsPerLength)
    /\ UNCHANGED << env, installed, mainpc, shuffled, word_list, idx, english_stopwords,
                    word_definitions, all_word_definitions, files, ret >>

\* the loop ends; count_combined = create_combined_length_csv(..., 300)
MainCombined ==
    /\ mode = "main" /\ mainpc = "all_lengths" /\ pc = "returned"
    /\ length = DefaultMaxLength
    /\ results' = Append(results, << length, ret >>)
    /\ Call("combined", 0, MainCombinedMaxWords)
    /\ mainpc' = "combined"
    /\ UNCHANGED << env, installed, length, shuffled, word_list, idx, english_stopwords,
                    word_definitions, all_word_definitions, files, ret >>

\* "Generation complete!" and the sample print-out
MainComplete ==
    /\ mode = "main" /\ mainpc = "combined" /\ pc = "returned"
    /\ mainpc' = "complete"
    /\ UNCHANGED << env, installed, length, results, args, pc, shuffled, word_list, idx,
                    english_stopwords, word_definitions, all_word_definitions,
                    files, ret >>

\* ------------------------------------------------- enhanced script: main()
EnhancedDownloadRequiredData ==
    /\ mode = "enhanced_main" /\ mainpc = "download"
    /\ downloads' = (IF availWords THEN {} ELSE {"words"})
                        \cup (IF availStop THEN {} ELSE {"stopwords"})
    /\ IF availWords THEN UNCHANGED availWords ELSE availWords' \in BOOLEAN
    /\ IF availStop THEN UNCHANGED availStop ELSE availStop' \in BOOLEAN
    /\ mainpc' = "downloaded"
    /\ UNCHANGED << env, length, results, args, pc, shuffled, word_list, idx,
                    english_stopwords, word_definitions, all_word_definitions,
                    files, ret >>

\* for length in range(3, 9): first iteration
EnhancedMainFirst ==
    /\ mode = "enhanced_main" /\ mainpc = "downloaded"
    /\ results' = << >>
    /\ length' = 3
    /\ Call("enhanced", 3, EnhancedMainMaxWords)
    /\ mainpc' = "lengths"
    /\ UNCHANGED << env, installed, shuffled, word_list, idx, english_stopwords,
                    word_definitions, all_word_definitions, files, ret >>

\* length_results[length] = count, then the next iteration
EnhancedMainNext ==
    /\ mode = "enhanced_main" /\ mainpc = "lengths" /\ pc = "returned"
    /\ length < 8
    /\ results' = Append(results, << length, ret >>)
    /\ length' = length + 1
    /\ Call("enhanced", length + 1, EnhancedMainMaxWords)
    /\ UNCHANGED << env, installed, mainpc, shuffled, word_list, idx, english_stopwords,
                    word_definitions, all_word_definitions, files, ret >>

\* the loop ends; "Generation complete!"; the sample file it then tries to read
\* does not exist, which is caught and printed
EnhancedMainComplete ==
    /\ mode = "enhanced_main" /\ mainpc = "lengths" /\ pc = "returned"
    /\ length = 8
    /\ results' = Append(results, << length, ret >>)
    /\ mainpc' = "complete"
    /\ UNCHANGED << env, installed, length, args, pc, shuffled, word_list, idx,
                    english_stopwords, word_definitions, all_word_definitions,
                    files, ret >>

\* ------------------------------------------------- running a function twice
\* the file a generation function writes
OutputFile ==
    CASE fn = "general" -> GeneralFile
      [] fn = "bylength" -> LengthFile(target_length)
      [] fn = "combined" -> CombinedFile
      [] OTHER -> EnhancedFile(target_length)

\* the same function is called again with the same arguments on the same
\* corpus: the first run's file is kept aside and the function starts over
Rerun ==
    /\ mode = "call" /\ pc = "returned" /\ run = 1
    /\ fn \in {"bylength", "enhanced"}
    /\ run' = 2
    /\ prev_file' = files[OutputFile]
    /\ pc' = "entry"
    \* the locals of the call that returned are gone
    /\ shuffled' = << >>
    /\ word_list' = << >>
    /\ idx' = 1
    /\ english_stopwords' = {}
    /\ word_definitions' = << >>
    /\ UNCHANGED << mode, corpus, installed, mainVars, args, all_word_definitions,
                    files, ret >>

InitRerun == InitCall /\ fn \in {"bylength", "enhanced"}

NextRerun ==
    \/ LoadByLength \/ LoopByLength \/ SortWriteByLength
    \/ LoadEnhanced \/ LoopEnhanced \/ SortWriteEnhanced
    \/ Rerun

SpecRerun == InitRerun /\ [][NextRerun]_vars

\* ------------------------------------------------- specification
Next ==
    \/ LoadGeneral \/ LoopGeneral \/ WriteGeneral
    \/ LoadByLength \/ LoopByLength \/ SortWriteByLength
    \/ EnterCombined \/ LoadCombined \/ LoopCombined \/ ExtendCombined \/ WriteCombined
    \/ LoadEnhanced \/ LoopEnhanced \/ SortWriteEnhanced
    \/ DownloadRequiredData \/ MainGeneral \/ AllLengthsFirst \/ AllLengthsNext
    \/ MainCombined \/ MainComplete
    \/ EnhancedDownloadRequiredData \/ EnhancedMainFirst \/ EnhancedMainNext
    \/ EnhancedMainComplete

Spec == Init /\ [][Next]_vars

\* ------------------------------------------------- vocabulary of the properties
Written(f) == files[f] # << >>
Rows(f) == Tail(files[f])
WrittenFiles == { f \in FileNames : Written(f) }
LengthFiles == { LengthFile(n) : n \in 2..8 } \cup { EnhancedFile(n) : n \in 2..8 }
Script1Files == {GeneralFile, CombinedFile} \cup { LengthFile(n) : n \in 2..8 }
InMain == mode \in {"main", "enhanced_main"}

\* every row a function holds or has written
AllRows ==
    { word_definitions[i] : i \in DOMAIN word_definitions }
        \cup { all_word_definitions[i] : i \in DOMAIN all_word_definitions }
        \cup UNION { { Rows(f)[i] : i \in DOMAIN Rows(f) } : f \in WrittenFiles }

NonDescending(rows) ==
    \A i \in 1..(Len(rows) - 1) : ~StrLess(rows[i + 1][1], rows[i][1])
ByLengthThenWord(rows) ==
    \A i \in 1..(Len(rows) - 1) :
        \/ Len(rows[i][1]) < Len(rows[i + 1][1])
        \/ /\ Len(rows[i][1]) = Len(rows[i + 1][1])
           /\ ~StrLess(rows[i + 1][1], rows[i][1])

\* positions of word_list the selection loop has been through
Processed == 1..(idx - 1)

Min(a, b) == IF a < b THEN a ELSE b

\* a candidate the by-length loops keep: clean_word accepts it, it has the
\* target length and WordNet defines it
Definable(word, tl) ==
    /\ clean_word(word) # None
    /\ Len(clean_word(word)) = tl
    /\ synsets(clean_word(word)) # << >>

\* ------------------------------------------------- C1
\* C1 (as claimed): no output file holds two data rows with the same word,
\* whatever letter cases the corpus holds a word in.
C1_NoDuplicateWords ==
    \A f \in WrittenFiles :
        \A i, j \in DOMAIN Rows(f) : i # j => Rows(f)[i][1] # Rows(f)[j][1]

QualifyingStopword(word) ==
    /\ clean_word(word) # None
    /\ Len(clean_word(word)) = target_length
    /\ clean_word(word) \in english_stopwords

\* C3 (as claimed): every stopword of the target length that is in the pool
\* is a row of the enhanced file, whatever the shuffle and however many
\* non-stopwords the pool holds.  Stated for the stopwords clean_word accepts
\* and for a quota that has room for all of them, the cases in which taking
\* stopwords first would write every one.
C3_StopwordsAlwaysWritten ==
    (/\ fn = "enhanced" /\ pc = "returned"
     /\ max_words >= Cardinality({ i \in DOMAIN word_list :
                                      QualifyingStopword(word_list[i]) })) =>
        \A i \in DOMAIN word_list :
            QualifyingStopword(word_list[i])
                => \E k \in DOMAIN Rows(OutputFile) :
                       Rows(OutputFile)[k][1] = clean_word(word_list[i])

\* C3 (amended): a pool word that clean_word accepts, of the target length
\* and in the stopword list, is kept (with an empty definition when it has
\* no sense) once the selection loop has been through it; so it is a row of
\* the file whenever max_words_per_length >= the pool size.
C3_StopwordsKeptWhenReached ==
    (fn = "enhanced" /\ pc \in {"loop", "write", "returned"}) =>
        LET kept == IF pc = "returned" THEN Rows(OutputFile) ELSE word_definitions
            StopRow(w) == << w, IF synsets(w) # << >> THEN synsets(w)[1] ELSE << >> >>
            Qualifies(i) == QualifyingStopword(word_list[i])
        IN  /\ \A i \in Processed :
                Qualifies(i) =>
                    \E k \in DOMAIN kept : kept[k] = StopRow(clean_word(word_list[i]))
            /\ (pc = "returned" /\ max_words >= Len(word_list)) =>
                   \A i \in DOMAIN word_list :
                       Qualifies(i) =>
                           \E k \in DOMAIN kept :
                               kept[k] = StopRow(clean_word(word_list[i]))

\* "the" (a stopword without a sense) was written with an empty definition
\* although the pool was larger than the quota
C3_Witness ==
    /\ fn = "enhanced" /\ pc = "returned"
    /\ Len(word_list) > max_words
    /\ \E k \in DOMAIN Rows(OutputFile) :
           Rows(OutputFile)[k] = << <<116,104,101>>, << >> >>

\* ------------------------------------------------- C4
\* C4: a word that is no stopword and has no sense is never written; a row
\* with an empty definition holds a stopword; the files of
\* create_word_definitions.py hold no empty definition.
C4_EmptyDefinitionOnlyForStopwords ==
    /\ \A r \in AllRows :
           /\ (r[1] \in StopwordsOrEmpty \/ synsets(r[1]) # << >>)
           /\ (r[2] = << >> => r[1] \in StopwordsOrEmpty)
           /\ r[2] # None
    /\ \A f \in WrittenFiles \cap Script1Files :
           \A i \in DOMAIN Rows(f) : Rows(f)[i][2] # << >>

\* the loop went through "ume" (no stopword, no sense) and through "the"
\* (a stopword without a sense): only "the" is in the file
C4_Witness ==
    /\ fn = "enhanced" /\ pc = "returned"
    /\ \E i \in Processed : word_list[i] = <<117,109,101>>
    /\ \E k \in DOMAIN Rows(OutputFile) :
           Rows(OutputFile)[k] = << <<116,104,101>>, << >> >>

\* ------------------------------------------------- C5
\* the target count a file was written under
TargetOf(f) ==
    IF mode = "call" THEN max_words
    ELSE CASE f = GeneralFile -> MainMaxWords
           [] f = CombinedFile -> MainCombinedMaxWords
           [] f \in { LengthFile(n) : n \in 2..8 } -> MainMaxWordsPerLength
           [] OTHER -> EnhancedMainMaxWords

RowsOfLength(rows, n) == { i \in DOMAIN rows : Len(rows[i][1]) = n }

\* C5: the rows a function holds never exceed its target count at any step
\* of the selection loop, a file holds at most the target count of rows
\* (per length in the combined file), and the returned count is the number
\* of rows written.
C5_AtMostTargetCount ==
    /\ pc \in {"loop", "write", "sort"} => Len(word_definitions) <= max_words
    /\ \A f \in WrittenFiles \ {CombinedFile} : Len(Rows(f)) <= TargetOf(f)
    /\ Written(CombinedFile) =>
           \A n \in Lengths :
               Cardinality(RowsOfLength(Rows(CombinedFile), n)) <= TargetOf(CombinedFile)
    /\ (pc = "returned" /\ fn # "none") =>
           ret = (IF Written(OutputFile) THEN Len(Rows(OutputFile)) ELSE 0)

\* the loop stopped at the quota with candidates left over
C5_Witness ==
    /\ fn = "general" /\ pc = "returned"
    /\ max_words > 0
    /\ idx <= Len(word_list)
    /\ Len(Rows(GeneralFile)) = max_words

\* ------------------------------------------------- C6
\* C6: every word of a length-bucketed output has exactly the target length.
C6_ExactTargetLength ==
    /\ \A n \in 2..8 :
           /\ Written(LengthFile(n)) =>
                  \A i \in DOMAIN Rows(LengthFile(n)) : Len(Rows(LengthFile(n))[i][1]) = n
           /\ Written(EnhancedFile(n)) =>
                  \A i \in DOMAIN Rows(EnhancedFile(n)) :
                      Len(Rows(EnhancedFile(n))[i][1]) = n
    /\ (fn \in {"bylength", "combined", "enhanced"} /\ pc \in {"loop", "sort"}) =>
           \A i \in DOMAIN word_definitions : Len(word_definitions[i][1]) = target_length

\* the pool of the 4-letter file held "who " (4 characters, 3 after strip):
\* the loop went through it and the file has rows
C6_Witness ==
    /\ fn = "enhanced" /\ pc = "returned" /\ target_length = 4
    /\ \E i \in Processed : word_list[i] = <<119,104,111,32>>
    /\ Len(Rows(OutputFile)) >= 1

\* ------------------------------------------------- C7
\* C7: every written word is what clean_word returns for a token it accepts
\* (lowercase, alphabetic, at least 3 characters); in a run of main() its
\* length is in 3..8.
C7_WordsAreClean ==
    \A r \in AllRows :
        /\ isalpha(r[1])
        /\ lower(r[1]) = r[1]
        /\ Len(r[1]) >= 3
        /\ InMain => Len(r[1]) \in Lengths

\* the loop went through the stopword "it's" and the file was written
C7_Witness ==
    /\ fn = "enhanced" /\ pc = "returned" /\ target_length = 4
    /\ \E i \in Processed : word_list[i] = <<105,116,39,115>>
    /\ Len(Rows(OutputFile)) >= 1

\* ------------------------------------------------- C8
\* C8 (as claimed): in a run of main(), a missing words corpus is reported
\* and its download triggered before any generation step, and when it is
\* still missing afterwards no file is written and the run does not complete.
C8_MissingCorpusIsFatal ==
    (InMain /\ mainpc # "download" /\ ~availWords) =>
        /\ "words" \in downloads
        /\ WrittenFiles = {}
        /\ mainpc # "complete"

\* ------------------------------------------------- C9
\* the number of candidates the function built its selection from
PoolSize == Len(shuffled)

\* C9: when a length-bucketed function is run twice on the same corpus with
\* a target count >= the pool size, both runs write the same rows in the
\* same order, whatever order each shuffle produced.
C9_ExhaustiveRunsAgree ==
    (run = 2 /\ pc = "returned" /\ max_words >= PoolSize) =>
        files[OutputFile] = prev_file

\* a second exhaustive run whose shuffle left the words in descending order
C9_Witness ==
    /\ run = 2 /\ pc = "returned" /\ max_words >= PoolSize
    /\ Len(word_list) >= 2
    /\ StrLess(word_list[2], word_list[1])
    /\ Len(prev_file) >= 3

\* ------------------------------------------------- C10
\* C10 (as claimed): the rows written for a length are min(max_words_per_length,
\* number of corpus entries of that length that clean_word accepts and
\* WordNet defines).
C10_SliceFillsQuota ==
    (availWords /\ ((fn = "bylength" /\ pc = "write") \/ (fn = "combined" /\ pc = "sort"))) =>
        Len(word_definitions) =
            Min(max_words,
                Cardinality({ w \in corpus : Len(w) = target_length
                                               /\ Definable(w, target_length) }))

\* C10 (amended): the rows written for a length are min(max_words_per_length,
\* number of entries among the first 2 * max_words_per_length shuffled
\* candidates that clean_word accepts and WordNet defines).
C10_QuotaFromSlice ==
    (availWords /\ ((fn = "bylength" /\ pc = "write") \/ (fn = "combined" /\ pc = "sort"))) =>
        Len(word_definitions) =
            Min(max_words,
                Cardinality({ i \in 1..Min(2 * max_words, Len(shuffled)) :
                                  Definable(shuffled[i], target_length) }))

\* the slice cut a definable candidate off and the quota was not filled
C10_Witness ==
    /\ fn = "bylength" /\ pc = "write"
    /\ Len(shuffled) > 2 * max_words
    /\ Len(word_definitions) < max_words
    /\ \E i \in (2 * max_words + 1)..Len(shuffled) : Definable(shuffled[i], target_length)

====
